---- MODULE Spec2Model ----
(***************************************************************************)
(* Model of relogio_UI_pyside.py: a clock window with a reminders panel.   *)
(* The state is the module-level locale loop, the widgets of WatchWindow   *)
(* (two clock labels, the input line, the reminders list and its           *)
(* selection), the timer and the position of the program in its            *)
(* bootstrap (locale loop, construction, event loop, closed).              *)
(***************************************************************************)
EXTENDS Integers, Sequences, FiniteSets, TLC

\* ------------------------------------------------------------- bounds
\* Number of QListWidgetItem objects created in one run of the program.
MaxItems == 3
\* Longest input text the add handler is applied to in SpecAdd.
MaxLen == 3

\* ------------------------------------------------------------- text
\* Characters the user can type; Whitespace are those str.strip() removes.
Chars == {"a", " ", "\t"}
Whitespace == {" ", "\t"}

\* Texts the user leaves in the input line before pressing Add or Enter.
Inputs == {<<>>, <<" ", "\t">>, <<"a">>, <<"\t", "a", " ">>, <<" ", "a", " ", "b", "\t">>}

\* Wall-clock readings, in seconds: the last second of a day and the next one.
Clock == {86399, 86400}

\* str.lstrip(): drop leading whitespace.
RECURSIVE LStrip(_)
LStrip(s) ==
    IF s = <<>> THEN <<>>
    ELSE IF Head(s) \in Whitespace THEN LStrip(Tail(s)) ELSE s

\* str.rstrip(): drop trailing whitespace.
RECURSIVE RStrip(_)
RStrip(s) ==
    IF s = <<>> THEN <<>>
    ELSE IF s[Len(s)] \in Whitespace THEN RStrip(SubSeq(s, 1, Len(s) - 1)) ELSE s

\* A plausible slip: only the leading whitespace is removed.
StripLeadingOnly(s) == LStrip(s)

\* str.strip() as called on the input text.
Strip(s) == RStrip(LStrip(s))

\* ------------------------------------------------------------- clock
Digit(n) == CASE n = 0 -> "0" [] n = 1 -> "1" [] n = 2 -> "2" [] n = 3 -> "3"
              [] n = 4 -> "4" [] n = 5 -> "5" [] n = 6 -> "6" [] n = 7 -> "7"
              [] n = 8 -> "8" [] n = 9 -> "9"
Pad2(n) == <<Digit(n \div 10), Digit(n % 10)>>

\* strftime("%H:%M:%S") of a time given in seconds.
FormatTime(t) ==
    Pad2((t \div 3600) % 24) \o <<":">> \o Pad2((t \div 60) % 60) \o <<":">> \o Pad2(t % 60)

\* strftime("%A, %d %B %Y"): the names depend on LC_TIME, the numbers on the day.
FormatDate(t, lc) == [names |-> lc, day |-> t \div 86400]

\* A label that was never given a text.
NoText == <<>>

\* ------------------------------------------------------------- locale
\* The candidates of the module-level loop, in its order.
Candidates == <<"pt_BR.UTF-8", "Portuguese_Brazil.1252">>
\* LC_TIME of a process that never called setlocale with success.
DefaultLocale == "C"

VARIABLES
    pc,           \* "locale" | "main" | "constructed" | "Running" | "Closed"
    loc_idx,      \* index into Candidates of the next candidate to try
    lc_time,      \* the process's LC_TIME
    tried,        \* the setlocale calls made so far: <<[loc, ok]>>
    now,          \* the wall-clock reading of the latest update_clock
    timer_active, \* self.timer is running
    time_label,   \* text of self.time_label
    date_label,   \* text of self.date_label
    rem_input,    \* text of self.rem_input
    rem_list,     \* items of self.rem_list: <<[id, text, checked]>>
    selected,     \* ids of the selected items of self.rem_list
    next_id,      \* identity of the next QListWidgetItem object
    last          \* the slot of WatchWindow the latest event ran, "none" if it ran none

vars == <<pc, loc_idx, lc_time, tried, now, timer_active, time_label, date_label,
          rem_input, rem_list, selected, next_id, last>>

clockVars == <<now, time_label, date_label>>
localeVars == <<loc_idx, lc_time, tried>>
listVars == <<rem_list, selected, next_id>>

Ids(list) == {list[i].id : i \in 1..Len(list)}

Init ==
    /\ pc = "locale"
    /\ loc_idx = 1
    /\ lc_time = DefaultLocale
    /\ tried = <<>>
    /\ now = 0
    /\ timer_active = FALSE
    /\ time_label = NoText
    /\ date_label = NoText
    /\ rem_input = <<>>
    /\ rem_list = <<>>
    /\ selected = {}
    /\ next_id = 1
    /\ last = "none"

\* ------------------------------------------------------------- startup
\* The loop ends after an accepted candidate (break) or after the last one.
LoopDoneKeepTrying(idx, ok) == idx >= Len(Candidates)

LoopDone(idx, ok) == ok \/ idx >= Len(Candidates)

\* One iteration of the locale loop: setlocale succeeds (ok) or raises, and the
\* bare except swallows whatever it raises.
LocaleTry ==
    /\ pc = "locale"
    /\ \E ok \in BOOLEAN :
        /\ tried' = Append(tried, [loc |-> Candidates[loc_idx], ok |-> ok])
        /\ lc_time' = IF ok THEN Candidates[loc_idx] ELSE lc_time
        /\ IF LoopDone(loc_idx, ok)
           THEN pc' = "main" /\ loc_idx' = loc_idx
           ELSE pc' = "locale" /\ loc_idx' = loc_idx + 1
    /\ last' = "none"
    /\ UNCHANGED <<clockVars, timer_active, rem_input, listVars>>

\* update_clock(): both labels are overwritten from the wall clock.
UpdateClock(t, lc) == [time |-> FormatTime(t), date |-> FormatDate(t, lc)]

\* A plausible slip: the timer is created and connected but never started.
ConstructTimerNotStarted ==
    /\ pc = "main"
    /\ pc' = "constructed"
    /\ rem_input' = <<>>
    /\ rem_list' = <<>>
    /\ selected' = {}
    /\ timer_active' = FALSE
    /\ now' \in Clock
    /\ time_label' = UpdateClock(now', lc_time).time
    /\ date_label' = UpdateClock(now', lc_time).date
    /\ last' = "none"
    /\ UNCHANGED <<localeVars, next_id>>

\* WatchWindow(): widgets created empty, timer started, first update_clock().
Construct ==
    /\ pc = "main"
    /\ pc' = "constructed"
    /\ rem_input' = <<>>
    /\ rem_list' = <<>>
    /\ selected' = {}
    /\ timer_active' = TRUE
    /\ now' \in Clock
    /\ time_label' = UpdateClock(now', lc_time).time
    /\ date_label' = UpdateClock(now', lc_time).date
    /\ last' = "none"
    /\ UNCHANGED <<localeVars, next_id>>

\* window.resize(); window.show(); app.exec(): the event loop starts.
Show ==
    /\ pc = "constructed"
    /\ pc' = "Running"
    /\ last' = "none"
    /\ UNCHANGED <<localeVars, clockVars, timer_active, rem_input, listVars>>

\* ------------------------------------------------------------- timer
\* A plausible slip: the refresh also resets the input line.
TickClearsInput ==
    /\ pc = "Running"
    /\ timer_active
    /\ now' \in Clock
    /\ time_label' = UpdateClock(now', lc_time).time
    /\ date_label' = UpdateClock(now', lc_time).date
    /\ rem_input' = <<>>
    /\ last' = "update_clock"
    /\ UNCHANGED <<pc, localeVars, timer_active, listVars>>

\* timer.timeout -> update_clock, with whatever the wall clock reads then.
Tick ==
    /\ pc = "Running"
    /\ timer_active
    /\ now' \in Clock
    /\ time_label' = UpdateClock(now', lc_time).time
    /\ date_label' = UpdateClock(now', lc_time).date
    /\ last' = "update_clock"
    /\ UNCHANGED <<pc, localeVars, timer_active, rem_input, listVars>>

\* ------------------------------------------------------------- input line
\* The user edits the input line until it reads s.
EditInput(s) ==
    /\ pc = "Running"
    /\ rem_input' = s
    /\ last' = "none"
    /\ UNCHANGED <<pc, localeVars, clockVars, timer_active, listVars>>

\* ------------------------------------------------------------- add_reminder
\* A plausible slip: the item starts checked.
NewItemChecked(id, text) == [id |-> id, text |-> text, checked |-> TRUE]

\* QListWidgetItem(text), flags set, setCheckState(Qt.Unchecked).
NewItem(id, text) == [id |-> id, text |-> text, checked |-> FALSE]

\* A plausible slip: insertItem(0, item) instead of addItem(item).
AddItemFront(list, item) == <<item>> \o list

\* QListWidget.addItem(item): the item becomes the last row.
AddItem(list, item) == Append(list, item)

\* A plausible slip: the input is cleared before the emptiness test is acted on.
InputAfterIgnoredAddCleared(input) == <<>>

\* The input line after an add whose trimmed text is empty: the early return.
InputAfterIgnoredAdd(input) == input

\* The body of add_reminder.
add_reminder ==
    LET text == Strip(rem_input) IN
    /\ pc = "Running"
    /\ text # <<>> => next_id <= MaxItems
    /\ IF text = <<>>
       THEN /\ rem_input' = InputAfterIgnoredAdd(rem_input)
            /\ UNCHANGED listVars
       ELSE /\ rem_list' = AddItem(rem_list, NewItem(next_id, text))
            /\ next_id' = next_id + 1
            /\ rem_input' = <<>>
            /\ UNCHANGED selected
    /\ last' = "add_reminder"
    /\ UNCHANGED <<pc, localeVars, clockVars, timer_active>>

\* add_btn.clicked -> add_reminder
AddClicked == add_reminder

\* rem_input.returnPressed -> add_reminder
ReturnPressed == add_reminder

\* ------------------------------------------------------------- check box
\* A plausible slip: the whole list follows the toggled item.
SetCheckedAll(list, id) ==
    [i \in 1..Len(list) |-> [list[i] EXCEPT !.checked = ~list[CHOOSE j \in 1..Len(list) : list[j].id = id].checked]]

\* The check state of item id is flipped by the view.
SetChecked(list, id) ==
    [i \in 1..Len(list) |->
        IF list[i].id = id THEN [list[i] EXCEPT !.checked = ~list[i].checked] ELSE list[i]]

\* The user toggles the check box of an item (ItemIsUserCheckable): with the
\* mouse the view may also select the item, with the keyboard it does not.
ToggleCheck(id) ==
    /\ pc = "Running"
    /\ id \in Ids(rem_list)
    /\ rem_list' = SetChecked(rem_list, id)
    /\ selected' \in {selected, {id}}
    /\ last' = "none"
    /\ UNCHANGED <<pc, localeVars, clockVars, timer_active, rem_input, next_id>>

\* ------------------------------------------------------------- selection
\* The list is created by QListWidget() and its selection mode is never set.
SelectionMode == "SingleSelection"

\* Selection after a click with the Ctrl key on item id.
CtrlClickSelection(sel, id) ==
    IF SelectionMode = "SingleSelection"
    THEN IF id \in sel THEN {} ELSE {id}
    ELSE IF id \in sel THEN sel \ {id} ELSE sel \cup {id}

\* Selection after a click with the Shift key on item id, anchored at item a.
ShiftClickSelection(list, a, id) ==
    IF SelectionMode = "SingleSelection"
    THEN {id}
    ELSE LET ra == CHOOSE i \in 1..Len(list) : list[i].id = a
             rb == CHOOSE i \in 1..Len(list) : list[i].id = id
             lo == IF ra < rb THEN ra ELSE rb
             hi == IF ra < rb THEN rb ELSE ra
         IN {list[i].id : i \in lo..hi}

Click(id) ==
    /\ pc = "Running"
    /\ id \in Ids(rem_list)
    /\ selected' = {id}
    /\ last' = "none"
    /\ UNCHANGED <<pc, localeVars, clockVars, timer_active, rem_input, rem_list, next_id>>

CtrlClick(id) ==
    /\ pc = "Running"
    /\ id \in Ids(rem_list)
    /\ selected' = CtrlClickSelection(selected, id)
    /\ last' = "none"
    /\ UNCHANGED <<pc, localeVars, clockVars, timer_active, rem_input, rem_list, next_id>>

ShiftClick(id) ==
    /\ pc = "Running"
    /\ id \in Ids(rem_list)
    /\ \E a \in (IF selected = {} THEN {id} ELSE selected) :
           selected' = ShiftClickSelection(rem_list, a, id)
    /\ last' = "none"
    /\ UNCHANGED <<pc, localeVars, clockVars, timer_active, rem_input, rem_list, next_id>>

\* ------------------------------------------------------------- delete_selected
\* QListWidget.row(item): the row the item is at now.
RowOf(list, id) == CHOOSE i \in 1..Len(list) : list[i].id = id

\* QListWidget.takeItem(row): the row is removed, the rows after it move up.
TakeItem(list, row) ==
    IF row \in 1..Len(list)
    THEN SubSeq(list, 1, row - 1) \o SubSeq(list, row + 1, Len(list))
    ELSE list

\* The orders in which selectedItems() can list the items of a selection.
Orders(sel) ==
    {o \in [1..Cardinality(sel) -> sel] : \A i, j \in 1..Cardinality(sel) : o[i] = o[j] => i = j}

RECURSIVE TakeRows(_, _)
TakeRows(list, rows) ==
    IF rows = <<>> THEN list ELSE TakeRows(TakeItem(list, Head(rows)), Tail(rows))

\* A plausible slip: the rows are looked up once, before anything is removed.
DeleteLoopStaleRows(list, order) ==
    TakeRows(list, [k \in 1..Len(order) |-> RowOf(list, order[k])])

\* The loop of delete_selected over the items of `order`: row(item), takeItem(row).
RECURSIVE DeleteLoop(_, _)
DeleteLoop(list, order) ==
    IF order = <<>> THEN list
    ELSE DeleteLoop(TakeItem(list, RowOf(list, Head(order))), Tail(order))

\* del_btn.clicked -> delete_selected. The selection loses the removed items; in
\* single selection the view may move the selection to a remaining item.
DeleteSelected ==
    /\ pc = "Running"
    /\ \E order \in Orders(selected) : rem_list' = DeleteLoop(rem_list, order)
    /\ IF selected = {}
       THEN selected' = {}
       ELSE selected' \in {{}} \cup {{i} : i \in Ids(rem_list')}
    /\ last' = "delete_selected"
    /\ UNCHANGED <<pc, localeVars, clockVars, timer_active, rem_input, next_id>>

\* ------------------------------------------------------------- close
\* The user closes the window: app.exec() returns and sys.exit() ends the process.
Close ==
    /\ pc = "Running"
    /\ pc' = "Closed"
    /\ timer_active' = FALSE
    /\ last' = "none"
    /\ UNCHANGED <<localeVars, clockVars, rem_input, listVars>>

Next ==
    \/ LocaleTry
    \/ Construct
    \/ Show
    \/ Tick
    \/ \E s \in Inputs : EditInput(s)
    \/ AddClicked
    \/ ReturnPressed
    \/ \E id \in 1..MaxItems : ToggleCheck(id)
    \/ \E id \in 1..MaxItems : Click(id)
    \/ \E id \in 1..MaxItems : CtrlClick(id)
    \/ \E id \in 1..MaxItems : ShiftClick(id)
    \/ DeleteSelected
    \/ Close

Spec == Init /\ [][Next]_vars

\* ------------------------------------------------------------- handlers alone
\* Texts of the items the handlers are tried on.
ItemTexts == {<<"a">>, <<"a", " ", "b">>}

\* The lists of n items, created in this order.
ListsOf(n) ==
    {[i \in 1..n |-> [id |-> i, text |-> t[i], checked |-> c[i]]] :
        t \in [1..n -> ItemTexts], c \in [1..n -> BOOLEAN]}

\* The texts of up to n characters.
TextsUpTo(n) == UNION {[1..k -> Chars] : k \in 0..n}

\* A running window, the locale loop having failed on every candidate.
RunningWindow ==
    /\ pc = "Running"
    /\ loc_idx = Len(Candidates)
    /\ lc_time = DefaultLocale
    /\ tried = [i \in 1..Len(Candidates) |-> [loc |-> Candidates[i], ok |-> FALSE]]
    /\ now = 86399
    /\ timer_active = TRUE
    /\ time_label = FormatTime(86399)
    /\ date_label = FormatDate(86399, DefaultLocale)
    /\ last = "none"

\* A running window with any list of up to MaxItems items and any selection.
InitDel ==
    /\ RunningWindow
    /\ rem_input = <<>>
    /\ \E n \in 0..MaxItems :
        /\ rem_list \in ListsOf(n)
        /\ selected \in SUBSET (1..n)
        /\ next_id = n + 1

NextDel == DeleteSelected

SpecDel == InitDel /\ [][NextDel]_vars

\* A running window with any list that has room for an item and any input text.
InitAdd ==
    /\ RunningWindow
    /\ rem_input \in TextsUpTo(MaxLen)
    /\ \E n \in 0..(MaxItems - 1) :
        /\ rem_list \in ListsOf(n)
        /\ selected \in {{}} \cup {{i} : i \in 1..n}
        /\ next_id = n + 1

NextAdd == AddClicked \/ ReturnPressed

SpecAdd == InitAdd /\ [][NextAdd]_vars

\* ------------------------------------------------------------- properties
\* s holds nothing but whitespace (the empty text included).
IsBlank(s) == \A i \in 1..Len(s) : s[i] \in Whitespace

\* t starts and ends with a character that is not whitespace.
IsTrimmed(t) == t # <<>> /\ t[1] \notin Whitespace /\ t[Len(t)] \notin Whitespace

\* t is s without its leading and trailing whitespace, and is not empty.
IsTrimOf(t, s) ==
    /\ IsTrimmed(t)
    /\ \E k \in 0..(Len(s) - Len(t)) :
        /\ SubSeq(s, k + 1, k + Len(t)) = t
        /\ IsBlank(SubSeq(s, 1, k))
        /\ IsBlank(SubSeq(s, k + Len(t) + 1, Len(s)))

\* The item of the list whose identity is id.
ItemOf(list, id) == list[CHOOSE i \in 1..Len(list) : list[i].id = id]

\* C1: an add whose trimmed input is not empty lengthens the list by one, leaves
\* the items already there as they were, appends an unchecked item whose text is
\* the trimmed input, and empties the input line; an equal text already in the
\* list changes nothing of that.
C1_AddAppends ==
    [][(last' = "add_reminder" /\ ~IsBlank(rem_input)) =>
          /\ Len(rem_list') = Len(rem_list) + 1
          /\ SubSeq(rem_list', 1, Len(rem_list)) = rem_list
          /\ IsTrimOf(rem_list'[Len(rem_list')].text, rem_input)
          /\ rem_list'[Len(rem_list')].checked = FALSE
          /\ rem_list'[Len(rem_list')].id \notin Ids(rem_list)
          /\ rem_input' = <<>>]_vars

\* An add has put a second item with the text of the first, checked, item.
C1_Witness ==
    /\ last = "add_reminder"
    /\ rem_input = <<>>
    /\ Len(rem_list) >= 2
    /\ rem_list[Len(rem_list)].text = rem_list[1].text
    /\ rem_list[1].checked
    /\ ~rem_list[Len(rem_list)].checked

\* C2: an add on an empty or whitespace-only input changes nothing: not the
\* list, not the selection, not the input line, and the window keeps running.
C2_BlankAddIsNoOp ==
    [][(last' = "add_reminder" /\ IsBlank(rem_input)) =>
          /\ rem_list' = rem_list
          /\ rem_input' = rem_input
          /\ selected' = selected
          /\ next_id' = next_id
          /\ pc' = "Running"
          /\ timer_active' = timer_active]_vars

\* An add ran on a whitespace-only input, with items in the list.
C2_Witness ==
    /\ last = "add_reminder"
    /\ rem_input # <<>>
    /\ IsBlank(rem_input)
    /\ rem_list # <<>>

\* The items of the list that are not in sel, in the order of the list.
Without(list, sel) == LET Keep(e) == e.id \notin sel IN SelectSeq(list, Keep)

\* C3: delete_selected leaves exactly the items that were not selected, each as
\* it was and in the order they had; with nothing selected the list is unchanged.
C3_DeleteRemovesSelection ==
    [][last' = "delete_selected" =>
          /\ rem_list' = Without(rem_list, selected)
          /\ selected = {} => rem_list' = rem_list]_vars

\* The first and third of three items were selected and deleted.
C3_Witness ==
    /\ last = "delete_selected"
    /\ next_id = 4
    /\ Ids(rem_list) = {2}

\* C4: toggling the check box of an item flips its checked flag and nothing else
\* of the list or the input line, and toggling it again restores the list.
C4_ToggleFlipsOne ==
    [][\A id \in 1..MaxItems : ToggleCheck(id) =>
          /\ Len(rem_list') = Len(rem_list)
          /\ \A i \in 1..Len(rem_list) :
                /\ rem_list'[i].id = rem_list[i].id
                /\ rem_list'[i].text = rem_list[i].text
                /\ rem_list'[i].checked =
                      IF rem_list[i].id = id THEN ~rem_list[i].checked ELSE rem_list[i].checked
          /\ rem_input' = rem_input
          /\ next_id' = next_id
          /\ SetChecked(rem_list', id) = rem_list]_vars

\* A checked item between two unchecked ones: only a toggle checks an item.
C4_Witness ==
    /\ Len(rem_list) = 3
    /\ ~rem_list[1].checked
    /\ rem_list[2].checked
    /\ ~rem_list[3].checked
    /\ rem_input # <<>>

\* C5: a click with Ctrl on an item that is not selected adds it to the selection
\* and keeps the items selected before, so that several items get selected.
C5_CtrlClickExtendsSelection ==
    [][\A id \in 1..MaxItems : (CtrlClick(id) /\ id \notin selected) =>
          selected' = selected \cup {id}]_vars

\* C6: the items of the list are in the order of their creation.
C6_InsertionOrder ==
    /\ \A i, j \in 1..Len(rem_list) : i < j => rem_list[i].id < rem_list[j].id
    /\ \A i \in 1..Len(rem_list) : rem_list[i].id < next_id

\* The first and the third item created remain, the second was deleted.
C6_Witness ==
    /\ Len(rem_list) = 2
    /\ rem_list[1].id = 1
    /\ rem_list[2].id = 3
    /\ rem_list[1].checked

\* C7: the text of every item is not empty and has no whitespace at either end;
\* an item that enters the list has the trimmed input as its text, and no step
\* changes the text of an item that stays.
C7_TextsTrimmedAndFixed ==
    /\ [](\A i \in 1..Len(rem_list) : IsTrimmed(rem_list[i].text))
    /\ [][\A i \in 1..Len(rem_list') :
            IF rem_list'[i].id \in Ids(rem_list)
            THEN rem_list'[i].text = ItemOf(rem_list, rem_list'[i].id).text
            ELSE IsTrimOf(rem_list'[i].text, rem_input)]_vars

\* An item made from an input with whitespace on both sides has been toggled and
\* has outlived the deletion of the item created before it.
C7_Witness ==
    /\ last = "delete_selected"
    /\ Len(rem_list) = 1
    /\ rem_list[1].id = 2
    /\ rem_list[1].text = <<"a", " ", "b">>
    /\ rem_list[1].checked

\* C8: a timer tick leaves the list, the selection and the input line as they are.
C8_TickFrame ==
    [][last' = "update_clock" =>
          /\ rem_list' = rem_list
          /\ selected' = selected
          /\ rem_input' = rem_input
          /\ next_id' = next_id
          /\ pc' = pc
          /\ timer_active' = timer_active]_vars

\* A tick ran with items, a checked one among them, a selection and a typed input.
C8_Witness ==
    /\ last = "update_clock"
    /\ Len(rem_list) >= 2
    /\ \E i \in 1..Len(rem_list) : rem_list[i].checked
    /\ selected # {}
    /\ rem_input # <<>>

\* C9: once constructed the window has its labels filled and its timer running,
\* and while it runs a tick is always due, whatever the user did; a running
\* window only ever goes to closed, the timer stops by no other step, closed is
\* entered from running only, and no step is taken once the window is closed.
C9_Lifecycle ==
    /\ [](pc \in {"locale", "main", "constructed", "Running", "Closed"})
    /\ [](pc \in {"constructed", "Running"} =>
            timer_active /\ time_label # NoText /\ date_label # NoText)
    /\ [](pc = "Running" => ENABLED Tick)
    /\ [](pc = "Closed" => ~timer_active)
    /\ [][pc = "Running" => pc' \in {"Running", "Closed"}]_vars
    /\ [][pc' = "Closed" => pc = "Running"]_vars
    /\ [][(timer_active /\ ~timer_active') => pc' = "Closed"]_vars
    /\ [][pc # "Closed"]_vars

\* The window was closed with two items in its list, one of them selected.
C9_Witness ==
    /\ pc = "Closed"
    /\ ~timer_active
    /\ Len(rem_list) = 2
    /\ selected # {}

\* C10: the locale loop tries the candidates in order and stops at the first one
\* accepted, which becomes LC_TIME; if none is accepted LC_TIME stays the default;
\* the loop is never stuck and the program goes on to construct the window.
C10_LocaleFallback ==
    /\ Len(tried) <= Len(Candidates)
    /\ \A i \in 1..Len(tried) : tried[i].loc = Candidates[i]
    /\ \A i \in 1..(Len(tried) - 1) : ~tried[i].ok
    /\ pc = "locale" =>
          /\ \A i \in 1..Len(tried) : ~tried[i].ok
          /\ Len(tried) < Len(Candidates)
          /\ lc_time = DefaultLocale
          /\ ENABLED LocaleTry
    /\ pc # "locale" =>
          /\ tried # <<>>
          /\ IF tried[Len(tried)].ok
             THEN lc_time = tried[Len(tried)].loc
             ELSE Len(tried) = Len(Candidates) /\ lc_time = DefaultLocale
    /\ pc = "main" => ENABLED Construct

\* The first candidate was refused and the second accepted, and the window runs.
C10_Witness ==
    /\ pc = "Running"
    /\ Len(tried) = 2
    /\ ~tried[1].ok
    /\ tried[2].ok

====
